---- MODULE Spec2Model ----
(***************************************************************************)
(* JouleTrace: the Socket 0 measurement task and its Redis lock.           *)
(*                                                                         *)
(* Each worker is one Celery pool process that serves one request at a     *)
(* time with socket_measurement_task (api/socket_measurement_task.py).     *)
(* The workers share one Redis key (Socket0Lock) and one calibration file. *)
(* A worker's step is the stretch of the task between two points where it  *)
(* talks to Redis or blocks (poll sleep, subprocess), so that the other    *)
(* workers interleave exactly where they can in the program.               *)
(*                                                                         *)
(* Durations are not counted: a key set with a lifetime may expire at any   *)
(* later moment, and a step may take any time.  The Redis server is taken  *)
(* to answer every command (no connection errors).                         *)
(***************************************************************************)
EXTENDS Integers, Sequences, FiniteSets, TLC

\* ---------------------------------------------------------------- bounds
NumWorkers == 2        \* Celery pool processes
MaxAttempts == 2       \* polls of a blocking acquire (timeout 60 s / 0.5 s sleep)
MaxTrials == 2         \* StatisticalAggregator.max_trials of the task (20 in the code)
MinTrials == 2         \* StatisticalAggregator.min_trials of the task (3 in the code)
AggMaxMin == 2         \* min_trials of an aggregator looked at on its own: 1..AggMaxMin
AggMaxTrials == 3      \* max_trials of an aggregator looked at on its own: 1..AggMaxTrials
CvCap == 300           \* a CV% of CvCap or more is kept as CvCap
MaxIdle == 1           \* idle_power_watts of a profile ranges over -MaxIdle..MaxIdle
MaxAgeDays == 3        \* age of a profile in days, from -1 (timestamp in the future)
MaxValidDays == 2      \* valid_until_days of a profile, from 0
CounterBits == 3       \* bits of an energy counter (32 on the machine)
MaxWall == 2           \* wall time of a trial, in whole units: 1..MaxWall
MaxClock == 5          \* ticks of the meter's clock that are followed

Workers == 1..NumWorkers

\* ------------------------------------------------------------- the key
\* The Redis key "jouletrace:socket0:lock".  owner is the worker whose SET
\* created the key, for as long as that worker is still serving the request
\* that issued the SET (Orphan once that process is gone); the program stores
\* only the string "locked", so owner is history kept for stating properties
\* and no action reads it.
\* (two values that are no worker)
Orphan == NumWorkers + 1
NoOwner == NumWorkers + 2
Absent == [present |-> FALSE, expires |-> FALSE, owner |-> NoOwner]

\* redis SET name "locked" NX EX lock_timeout: the reply and the key afterwards
SetNxOk(k) == ~k.present
SetNxNoExpiry(k, w) == IF k.present THEN k ELSE [present |-> TRUE, expires |-> FALSE, owner |-> w]
SetNx(k, w) == IF k.present THEN k ELSE [present |-> TRUE, expires |-> TRUE, owner |-> w]

\* Socket0Lock.release: redis DEL name.  The key afterwards, and whether the
\* call raises (DEL of a missing key is no error, and release catches what
\* the client raises)
ReleaseKeepsKey(k) == k
Release(k) == Absent

ReleaseRaisesIfAbsent(k) == ~k.present
ReleaseRaises(k) == FALSE

\* ------------------------------------------------------ calibration file
\* absent: no file; unusable: a file whose profile is_valid rejects (expired,
\* or idle_power_watts missing or zero); valid: a file is_valid accepts
CalFileStates == {"absent", "valid", "unusable"}
\* truncated: the file calibrate_socket0.py has opened for writing and not
\* yet closed (empty, or the beginning of a record)
CalFileContents == CalFileStates \cup {"truncated"}

\* CalibrationProfile.load then is_valid, as SocketExecutor.setup uses them:
\* the error setup raises, or "none"
CalibrationError(f) ==
    CASE f = "absent" -> "cal_missing"
      [] f = "unusable" -> "cal_invalid"
      [] f = "truncated" -> "cal_corrupt"
      [] OTHER -> "none"

\* ------------------------------------------------------------- responses
NoResp == [status |-> "none", error |-> "none", energy |-> FALSE]
\* _build_validation_only_response
ValidationOnlyResponse == [status |-> "validation_failed", error |-> "none", energy |-> FALSE]
\* _build_success_response
SuccessResponse == [status |-> "completed", error |-> "none", energy |-> TRUE]
\* the dictionary returned by the task's except branch
FailedResponse(e) == [status |-> "failed", error |-> e, energy |-> FALSE]

VARIABLES
    pc,           \* where each worker is in the task
    key,          \* the Redis lock key
    waited,       \* failed polls of the current blocking acquire
    initialized,  \* SocketExecutor._initialized of the worker's executor
    calFile,      \* state of config/socket0_calibration.json
    isCorrect,    \* validation_result['is_correct']: "yes", "no", or "none" before the validator returns
    succ,         \* len(successful_results)
    failed,       \* failed_count; the loop index "trial" is succ + failed
    exc,          \* exception propagating out of the with block, or "none"
    resp,         \* the response the task returned
    log,          \* events of the current request, consecutive repeats dropped
    malformed,    \* whether JouleTraceMeasurementRequest.validate would reject the worker's request
    clients,      \* the kinds of request the clients of this run submit
    cal,          \* where calibrate_socket0.py is
    agg,          \* one StatisticalAggregator.aggregate_measurements call looked at on its own
    profile,      \* one CalibrationProfile looked at on its own
    run,          \* one SocketExecutor.execute_single_trial call looked at on its own
    meter,        \* one PCMSocketMeter (its reading cache) looked at on its own
    timed         \* one holder of the lock with the durations of its steps counted

vars == <<pc, key, waited, initialized, calFile, isCorrect, succ, failed, exc, resp, log,
          malformed, clients, cal, agg, profile, run, meter, timed>>

\* what the task never touches
aux == <<clients, cal, agg, profile, run, meter, timed>>

Note(l, e) == IF l # <<>> /\ l[Len(l)] = e THEN l ELSE Append(l, e)

\* ---------------------------------------------------------------- requests
\* What a client may put in request_data.  missing_field: a key _parse_request
\* indexes is not there; the next four are what
\* JouleTraceMeasurementRequest.validate rejects.
RequestKinds == {"ok", "missing_field", "empty_code", "no_tests", "bad_trials", "bad_timeout"}
WellFormed == {"ok", "missing_field"}

\* JouleTraceMeasurementRequest.validate: FALSE is (False, reason)
ValidateRequest(kind) == kind \notin {"empty_code", "no_tests", "bad_trials", "bad_timeout"}

\* What _parse_request and _validate_solution can come to for a request:
\* "error" (one of them raised), "incorrect", "correct".
\*   missing_field: request_data[...] raises KeyError
\*   empty_code: compiles, but the function is not found
\*   no_tests: passed_tests = len(test_cases) = 0, so correct unless the code
\*             does not compile or lacks the function
\*   bad_trials: energy_measurement_trials is not read again
\*   bad_timeout: signal.alarm(0) sets no alarm; a negative value raises
TaskOutcomes(kind) ==
    CASE kind = "missing_field" -> {"error"}
      [] kind = "empty_code" -> {"incorrect"}
      [] kind = "no_tests" -> {"incorrect", "correct"}
      [] kind = "bad_trials" -> {"incorrect", "correct"}
      [] OTHER -> {"error", "incorrect", "correct"}

NoAgg == [phase |-> "off"]
NoProfile == [checked |-> "off"]
NoRun == [phase |-> "off"]
NoMeter == [on |-> FALSE]
NoTimed == [phase |-> "off"]

InitWorkers ==
    /\ pc = [w \in Workers |-> "idle"]
    /\ key = Absent
    /\ waited = [w \in Workers |-> 0]
    /\ initialized = [w \in Workers |-> FALSE]
    /\ calFile \in CalFileStates
    /\ isCorrect = [w \in Workers |-> "none"]
    /\ succ = [w \in Workers |-> 0]
    /\ failed = [w \in Workers |-> 0]
    /\ exc = [w \in Workers |-> "none"]
    /\ resp = [w \in Workers |-> NoResp]
    /\ log = [w \in Workers |-> <<>>]
    /\ malformed = [w \in Workers |-> FALSE]

\* Clients that send what validate() would accept.  (The task treats the
\* other requests no differently; they are let in by InitAnyRequest.)
Init ==
    /\ InitWorkers
    /\ clients = WellFormed
    /\ cal = "off"
    /\ agg = NoAgg
    /\ profile = NoProfile
    /\ run = NoRun /\ meter = NoMeter /\ timed = NoTimed

\* ------------------------------------------------- socket_measurement_task
\* Where the task goes once _validate_solution has returned: the early
\* return for an incorrect solution, or on to "with self.lock"
GateDropped(correct) == "acquire"
NextAfterValidation(correct) == IF correct THEN "acquire" ELSE "done"

\* A worker takes a request off the queue and runs the task up to the lock:
\* _parse_request, _validate_solution, and the early return for an incorrect
\* solution.  An exception goes to the task's except branch.  The task does
\* not call request.validate(): what it would say is kept in malformed and
\* nothing reads it.
TaskStart(w) ==
    /\ pc[w] = "idle"
    /\ \E kind \in clients : \E outcome \in TaskOutcomes(kind) :
         /\ malformed' = [malformed EXCEPT ![w] = ~ValidateRequest(kind)]
         /\ IF outcome = "error"
              THEN \* _parse_request or the validator raised
                   /\ exc' = [exc EXCEPT ![w] = "request"]
                   /\ pc' = [pc EXCEPT ![w] = "except"]
                   /\ UNCHANGED <<log, isCorrect, resp>>
              ELSE IF outcome = "incorrect"
              THEN /\ isCorrect' = [isCorrect EXCEPT ![w] = "no"]
                   /\ log' = [log EXCEPT ![w] = Note(Note(@, "validated"), "responded")]
                   /\ resp' = [resp EXCEPT ![w] = ValidationOnlyResponse]
                   /\ pc' = [pc EXCEPT ![w] = NextAfterValidation(FALSE)]
                   /\ UNCHANGED exc
              ELSE /\ isCorrect' = [isCorrect EXCEPT ![w] = "yes"]
                   /\ log' = [log EXCEPT ![w] = Note(@, "validated")]
                   /\ pc' = [pc EXCEPT ![w] = NextAfterValidation(TRUE)]
                   /\ UNCHANGED <<exc, resp>>
    /\ UNCHANGED <<key, waited, initialized, calFile, succ, failed>>
    /\ UNCHANGED aux

\* Socket0Lock.__enter__ when acquire returned False: it raises, which takes
\* the task to its except branch
EnterIgnoresFailure == "setup"
EnterOnFailure == "except"

\* Socket0Lock.acquire(blocking=True, timeout=60): one pass of the polling
\* loop.  A successful SET returns True to __enter__ and the with body starts.
\* After a failed SET the loop sleeps; when the time is up acquire returns
\* False and __enter__ raises RuntimeError("Failed to acquire Socket 0 lock").
AcquirePoll(w) ==
    /\ pc[w] = "acquire"
    /\ key' = SetNx(key, w)
    /\ IF SetNxOk(key)
         THEN /\ pc' = [pc EXCEPT ![w] = "setup"]
              /\ waited' = [waited EXCEPT ![w] = 0]
              /\ log' = [log EXCEPT ![w] = Note(Note(@, "acq_try"), "acquired")]
              /\ UNCHANGED exc
         ELSE IF waited[w] + 1 < MaxAttempts
         THEN /\ waited' = [waited EXCEPT ![w] = @ + 1]
              /\ log' = [log EXCEPT ![w] = Note(@, "acq_try")]
              /\ UNCHANGED <<pc, exc>>
         ELSE /\ waited' = [waited EXCEPT ![w] = 0]
              /\ log' = [log EXCEPT ![w] = Note(@, "acq_try")]
              /\ exc' = [exc EXCEPT ![w] = "lock_timeout"]
              /\ pc' = [pc EXCEPT ![w] = EnterOnFailure]
    /\ UNCHANGED <<initialized, calFile, isCorrect, succ, failed, resp>>
    /\ UNCHANGED <<malformed, aux>>

\* SocketExecutor.setup, the first statement of the with body.
ExecutorSetup(w) ==
    /\ pc[w] = "setup"
    /\ IF initialized[w]
         THEN /\ pc' = [pc EXCEPT ![w] = "trial"]
              /\ log' = [log EXCEPT ![w] = Note(@, "setup")]
              /\ UNCHANGED <<initialized, exc>>
         ELSE \E meterOk \in BOOLEAN :
              LET err == IF ~meterOk THEN "meter" ELSE CalibrationError(calFile)
                  \* meter.setup reads every socket's counter once (a meter
                  \* that an earlier, failed setup left set up skips the read;
                  \* the model lets it read)
                  l1 == Note(log[w], "setup")
                  l2 == IF meterOk THEN Note(l1, "read") ELSE l1
              IN  /\ log' = [log EXCEPT ![w] = l2]
                  /\ IF err = "none"
                       THEN /\ initialized' = [initialized EXCEPT ![w] = TRUE]
                            /\ pc' = [pc EXCEPT ![w] = "trial"]
                            /\ UNCHANGED exc
                       ELSE /\ exc' = [exc EXCEPT ![w] = err]
                            /\ pc' = [pc EXCEPT ![w] = "exit"]
                            /\ UNCHANGED initialized
    /\ UNCHANGED <<key, waited, calFile, isCorrect, succ,
                   failed, resp>>
    /\ UNCHANGED <<malformed, aux>>

\* StatisticalAggregator._should_stop_early; n is len(successful_results),
\* cvBelow says cv < target_cv_percent
StopOnlyAtMax(enabled, min, max, n, cvBelow) ==
    IF ~enabled THEN FALSE
    ELSE IF n < min THEN FALSE
    ELSE IF n < max THEN FALSE
    ELSE TRUE
ShouldStopEarlyCfg(enabled, min, max, n, cvBelow) ==
    IF ~enabled THEN FALSE
    ELSE IF n < min THEN FALSE
    ELSE IF cvBelow THEN TRUE
    ELSE IF n < max THEN FALSE
    ELSE TRUE

\* the task's aggregator: early_stop_enabled = True, min_trials, max_trials
ShouldStopEarly(n, cvBelow) == ShouldStopEarlyCfg(TRUE, MinTrials, MaxTrials, n, cvBelow)

\* The rest of one pass of the loop of aggregate_measurements once
\* execute_single_trial has returned, and what follows the loop: the
\* "All trials failed" error, or the statistics and executor.cleanup().
AfterTrial(w, ok, cvBelow) ==
    LET s2 == IF ok THEN succ[w] + 1 ELSE succ[w]
        f2 == IF ok THEN failed[w] ELSE failed[w] + 1
        stop == ok /\ s2 >= MinTrials /\ ShouldStopEarly(s2, cvBelow)
        loopEnds == stop \/ s2 + f2 >= MaxTrials
    IN  /\ succ' = [succ EXCEPT ![w] = s2]
        /\ failed' = [failed EXCEPT ![w] = f2]
        /\ IF ~loopEnds
             THEN /\ pc' = [pc EXCEPT ![w] = "trial"]
                  /\ UNCHANGED <<exc, initialized>>
             ELSE IF s2 = 0
             THEN /\ exc' = [exc EXCEPT ![w] = "all_failed"]
                  /\ pc' = [pc EXCEPT ![w] = "exit"]
                  /\ UNCHANGED initialized
             ELSE /\ initialized' = [initialized EXCEPT ![w] = FALSE]
                  /\ pc' = [pc EXCEPT ![w] = "exit"]
                  /\ UNCHANGED exc

\* execute_single_trial up to the launch of the subprocess: the idle check
\* passed, the driver script is written and the counter is read.
TrialBegin(w) ==
    /\ pc[w] = "trial"
    /\ pc' = [pc EXCEPT ![w] = "running"]
    /\ log' = [log EXCEPT ![w] = Note(@, "read")]
    /\ UNCHANGED <<key, waited, initialized, calFile,
                   isCorrect, succ, failed, exc, resp>>
    /\ UNCHANGED <<malformed, aux>>

\* execute_single_trial returns a failed result at once: the socket is not idle.
TrialNotIdle(w) ==
    /\ pc[w] = "trial"
    /\ AfterTrial(w, FALSE, FALSE)
    /\ UNCHANGED <<key, waited, calFile, isCorrect, resp, log>>
    /\ UNCHANGED <<malformed, aux>>

\* The subprocess ended (or timed out); the counter is read again and the
\* result goes back to the aggregator.
TrialEnd(w) ==
    /\ pc[w] = "running"
    /\ log' = [log EXCEPT ![w] = Note(@, "read")]
    /\ \E ok \in BOOLEAN :
         \E cvBelow \in (IF succ[w] + 1 < 2 THEN {TRUE} ELSE BOOLEAN) :
            AfterTrial(w, ok, cvBelow)
    /\ UNCHANGED <<key, waited, calFile, isCorrect, resp>>
    /\ UNCHANGED <<malformed, aux>>

\* Socket0Lock.__exit__: release.  An exception raised in the with body goes
\* on to the task's except branch; otherwise the task builds the response
\* (update_state, _build_success_response) and returns it, unless that raises.
LockExit(w) ==
    /\ pc[w] = "exit"
    /\ key' = Release(key)
    /\ IF ReleaseRaises(key)
         THEN /\ exc' = [exc EXCEPT ![w] = "release"]
              /\ pc' = [pc EXCEPT ![w] = "except"]
              /\ log' = [log EXCEPT ![w] = Note(@, "released")]
              /\ UNCHANGED resp
         ELSE IF exc[w] # "none"
         THEN /\ pc' = [pc EXCEPT ![w] = "except"]
              /\ log' = [log EXCEPT ![w] = Note(@, "released")]
              /\ UNCHANGED <<exc, resp>>
         ELSE \/ /\ resp' = [resp EXCEPT ![w] = SuccessResponse]
                 /\ log' = [log EXCEPT ![w] = Note(Note(@, "released"), "responded")]
                 /\ pc' = [pc EXCEPT ![w] = "done"]
                 /\ UNCHANGED exc
              \/ /\ exc' = [exc EXCEPT ![w] = "internal"]
                 /\ log' = [log EXCEPT ![w] = Note(@, "released")]
                 /\ pc' = [pc EXCEPT ![w] = "except"]
                 /\ UNCHANGED resp
    /\ UNCHANGED <<waited, initialized, calFile, isCorrect, succ, failed>>
    /\ UNCHANGED <<malformed, aux>>

\* except Exception: release the lock (whatever release raises is passed
\* over), return the failure dictionary.
ExceptHandler(w) ==
    /\ pc[w] = "except"
    /\ key' = Release(key)
    /\ log' = [log EXCEPT ![w] = Note(Note(@, "released"), "responded")]
    /\ resp' = [resp EXCEPT ![w] = FailedResponse(exc[w])]
    /\ pc' = [pc EXCEPT ![w] = "done"]
    /\ UNCHANGED <<waited, initialized, calFile, isCorrect, succ, failed, exc>>
    /\ UNCHANGED <<malformed, aux>>

\* The locals of the task are gone when it is over.
Idle(w) ==
    /\ waited' = [waited EXCEPT ![w] = 0]
    /\ isCorrect' = [isCorrect EXCEPT ![w] = "none"]
    /\ succ' = [succ EXCEPT ![w] = 0]
    /\ failed' = [failed EXCEPT ![w] = 0]
    /\ exc' = [exc EXCEPT ![w] = "none"]
    /\ resp' = [resp EXCEPT ![w] = NoResp]
    /\ log' = [log EXCEPT ![w] = <<>>]
    /\ malformed' = [malformed EXCEPT ![w] = FALSE]

\* The task returned; the worker is free for the next request.  The executor
\* object (and its _initialized flag) stays with the worker process.
TaskReturn(w) ==
    /\ pc[w] = "done"
    /\ pc' = [pc EXCEPT ![w] = "idle"]
    /\ Idle(w)
    /\ UNCHANGED <<key, initialized, calFile>>
    /\ UNCHANGED aux

\* cancel_task: revoke(task_id, terminate=True) kills the pool process that
\* runs the task; no statement of the task runs after that, and the pool
\* replaces the process by a fresh one (new task instance, no executor yet).
\* A key the killed request had set has no owner left.
Running == {"acquire", "setup", "trial", "running", "exit", "except"}

Disown(k, w) == IF k.present /\ k.owner = w THEN [k EXCEPT !.owner = Orphan] ELSE k

Terminate(w) ==
    /\ pc[w] \in Running
    /\ pc' = [pc EXCEPT ![w] = "idle"]
    /\ Idle(w)
    /\ initialized' = [initialized EXCEPT ![w] = FALSE]
    /\ key' = Disown(key, w)
    /\ UNCHANGED calFile
    /\ UNCHANGED aux

\* ------------------------------------------------------------ environment
\* The lifetime given to the key with EX runs out and Redis drops the key.
KeyExpires ==
    /\ key.present
    /\ key.expires
    /\ key' = Absent
    /\ UNCHANGED <<pc, waited, initialized, calFile, isCorrect, succ, failed,
                   exc, resp, log>>
    /\ UNCHANGED <<malformed, aux>>

\* The calibration file changes on disk: calibrate_socket0.py writes a new
\* one, the operator removes it, or its validity window runs out.
CalibrationChange ==
    /\ \E f \in CalFileStates \ {calFile} : calFile' = f
    /\ UNCHANGED <<pc, key, waited, initialized, isCorrect, succ, failed, exc, resp, log>>
    /\ UNCHANGED <<malformed, aux>>

Next ==
    \/ \E w \in Workers : TaskStart(w)
    \/ \E w \in Workers : AcquirePoll(w)
    \/ \E w \in Workers : ExecutorSetup(w)
    \/ \E w \in Workers : TrialBegin(w)
    \/ \E w \in Workers : TrialNotIdle(w)
    \/ \E w \in Workers : TrialEnd(w)
    \/ \E w \in Workers : LockExit(w)
    \/ \E w \in Workers : ExceptHandler(w)
    \/ \E w \in Workers : TaskReturn(w)
    \/ \E w \in Workers : Terminate(w)
    \/ KeyExpires
    \/ CalibrationChange

Spec == Init /\ [][Next]_vars

\* Runs in which the key's lifetime never runs out: every step but KeyExpires.
NextWithinTtl ==
    \/ \E w \in Workers : TaskStart(w)
    \/ \E w \in Workers : AcquirePoll(w)
    \/ \E w \in Workers : ExecutorSetup(w)
    \/ \E w \in Workers : TrialBegin(w)
    \/ \E w \in Workers : TrialNotIdle(w)
    \/ \E w \in Workers : TrialEnd(w)
    \/ \E w \in Workers : LockExit(w)
    \/ \E w \in Workers : ExceptHandler(w)
    \/ \E w \in Workers : TaskReturn(w)
    \/ \E w \in Workers : Terminate(w)
    \/ CalibrationChange

SpecWithinTtl == Init /\ [][NextWithinTtl]_vars

\* Clients that send any kind of request.
InitAnyRequest ==
    /\ InitWorkers
    /\ clients = RequestKinds
    /\ cal = "off"
    /\ agg = NoAgg
    /\ profile = NoProfile
    /\ run = NoRun /\ meter = NoMeter /\ timed = NoTimed

SpecAnyRequest == InitAnyRequest /\ [][Next]_vars

\* Redis does drop a key whose lifetime has run out.
SpecFair == Init /\ [][Next]_vars /\ WF_vars(KeyExpires)

\* ----------------------------------------------------- calibrate_socket0.py
\* The calibration tool, run by the operator next to the workers.  It takes
\* no lock.  measure_idle_power checks once that no process runs on the
\* socket's CPUs (a running trial subprocess is one) and then samples the
\* counter every second for the duration.
CalibratorStart ==
    /\ cal = "off"
    /\ \A w \in Workers : pc[w] # "running"
    /\ cal' = "sampling"
    /\ UNCHANGED <<pc, key, waited, initialized, calFile, isCorrect, succ, failed,
                   exc, resp, log, malformed, clients, agg, profile, run, meter, timed>>

\* measure_idle_power raised (a counter read failed): the tool exits.
CalibratorAbort ==
    /\ cal = "sampling"
    /\ cal' = "off"
    /\ UNCHANGED <<pc, key, waited, initialized, calFile, isCorrect, succ, failed,
                   exc, resp, log, malformed, clients, agg, profile, run, meter, timed>>

\* The samples are in; open(output_path, 'w') empties the file in place.
CalibratorSave ==
    /\ cal = "sampling"
    /\ cal' = "saving"
    /\ calFile' = "truncated"
    /\ UNCHANGED <<pc, key, waited, initialized, isCorrect, succ, failed,
                   exc, resp, log, malformed, clients, agg, profile, run, meter, timed>>

\* json.dump has written the record and the with block closed the file.
CalibratorSaved ==
    /\ cal = "saving"
    /\ cal' = "off"
    /\ calFile' = "valid"
    /\ UNCHANGED <<pc, key, waited, initialized, isCorrect, succ, failed,
                   exc, resp, log, malformed, clients, agg, profile, run, meter, timed>>

NextCalibrator ==
    \/ Next
    \/ CalibratorStart
    \/ CalibratorAbort
    \/ CalibratorSave
    \/ CalibratorSaved

SpecCalibrator == Init /\ [][NextCalibrator]_vars

\* ---------------------------------------------------- CalibrationProfile
\* A profile object on its own: the fields load() filled in (loaded = FALSE:
\* idle_power_watts is still None), the timestamp string ("missing": None or
\* empty, "bad": not ISO format, "ok": parses, and then age = now - timestamp
\* in days), and what is_valid returned once checked.
IdleValues == (0 - MaxIdle)..MaxIdle
AgeValues == (0 - 1)..MaxAgeDays
ValidDayValues == 0..MaxValidDays
TsStates == {"missing", "bad", "ok"}

Profiles ==
    { p \in [loaded : BOOLEAN, idle : IdleValues, ts : TsStates,
              age : AgeValues, validDays : ValidDayValues] :
        /\ ~p.loaded => p.idle = 0
        /\ p.ts # "ok" => p.age = 0 }

\* "not self.idle_power_watts": None and 0 are false in Python, every other
\* number is true
IdleFalsy(p) == ~p.loaded \/ p.idle = 0

\* CalibrationProfile.is_valid: the pair (is_valid, reason)
IsValid(p) ==
    IF IdleFalsy(p) THEN [ok |-> FALSE, reason |-> "not loaded"]
    ELSE IF p.ts = "missing" THEN [ok |-> FALSE, reason |-> "timestamp missing"]
    ELSE IF p.ts = "bad" THEN [ok |-> FALSE, reason |-> "invalid timestamp"]
    ELSE IF p.age > p.validDays THEN [ok |-> FALSE, reason |-> "expired"]
    ELSE [ok |-> TRUE, reason |-> "valid"]

InitProfile ==
    /\ InitWorkers
    /\ clients = WellFormed
    /\ cal = "off"
    /\ agg = NoAgg
    /\ run = NoRun /\ meter = NoMeter /\ timed = NoTimed
    /\ \E p \in Profiles : profile = [checked |-> "no", in |-> p, out |-> [ok |-> FALSE, reason |-> "none"]]

ProfileCheck ==
    /\ profile.checked = "no"
    /\ profile' = [profile EXCEPT !.checked = "yes", !.out = IsValid(profile.in)]
    /\ UNCHANGED <<pc, key, waited, initialized, calFile, isCorrect, succ, failed,
                   exc, resp, log, malformed, clients, cal, agg, run, meter, timed>>

NextProfile == ProfileCheck

SpecProfile == InitProfile /\ [][NextProfile]_vars

\* -------------------------------------------------- StatisticalAggregator
\* One aggregate_measurements call on its own, with the net energies of the
\* trials as numbers.  agg holds the configuration, the loop index, the
\* buffer of successful results, the failed count, whether the cooldown
\* sleep took place after the trial that returned last, and the result.
Energies == {0 - 10, 0, 10, 11, 12}
Targets == {5, 20}

RECURSIVE Sum(_)
Sum(xs) == IF xs = <<>> THEN 0 ELSE xs[1] + Sum(Tail(xs))

RECURSIVE SumSq(_)
SumSq(xs) == IF xs = <<>> THEN 0 ELSE xs[1] * xs[1] + SumSq(Tail(xs))

\* n (n - 1) times the sample variance
Spread(xs) == Len(xs) * SumSq(xs) - Sum(xs) * Sum(xs)

\* the whole part of the square root, up to CvCap
ISqrt(x) == CHOOSE r \in 0..CvCap : r * r <= x /\ (r = CvCap \/ (r + 1) * (r + 1) > x)

\* StatisticalAggregator._calculate_cv: stdev / mean * 100, as whole percent
\* (rounded toward zero; the thresholds it is compared with are whole)
CalculateCv(xs) ==
    IF Len(xs) < 2 THEN 0
    ELSE IF Sum(xs) = 0 THEN 0
    ELSE LET n == Len(xs)
             r == ISqrt((10000 * Spread(xs) * n) \div ((n - 1) * Sum(xs) * Sum(xs)))
         IN  IF Sum(xs) > 0 THEN r ELSE 0 - r

\* "statistics.stdev(energies) if len(energies) > 1 else 0.0" is zero
StdevUnguarded(xs) == Len(xs) > 1 /\ Spread(xs) = 0
StdevIsZero(xs) == IF Len(xs) > 1 THEN Spread(xs) = 0 ELSE TRUE

\* StatisticalAggregator._assess_confidence
AssessConfidenceNoSampleSize(cv, n, min) ==
    IF cv < 5 THEN "high"
    ELSE IF cv < 10 THEN "medium"
    ELSE "low"
AssessConfidence(cv, n, min) ==
    IF cv < 5 /\ n >= min THEN "high"
    ELSE IF cv < 10 /\ n >= min THEN "medium"
    ELSE "low"

\* what the loop does with a failed result: "continue"
FailedTrialAborts == "abort"
OnFailedTrial == "continue"

NoResult == [cv |-> 0, stdevZero |-> TRUE, confidence |-> "none", successful |-> 0,
             failed |-> 0, total |-> 0, energies |-> <<>>, times |-> 0,
             earlyStop |-> FALSE, reason |-> "none"]

\* total_trials = trial + 1, trial being the index the loop reached last
TotalTrialsIsMax(trial) == agg.max
TotalTrials(trial) == trial + 1

\* the AggregatedResult built after the loop
Result(buf, failedCount, total, stop) ==
    [cv |-> CalculateCv(buf), stdevZero |-> StdevIsZero(buf),
     confidence |-> AssessConfidence(CalculateCv(buf), Len(buf), agg.min),
     successful |-> Len(buf), failed |-> failedCount, total |-> total,
     \* trial_energies, and the length of trial_times
     energies |-> buf, times |-> Len(buf),
     earlyStop |-> stop # "none", reason |-> stop]

InitAggregator ==
    /\ InitWorkers
    /\ clients = WellFormed
    /\ cal = "off"
    /\ profile = NoProfile
    /\ run = NoRun /\ meter = NoMeter /\ timed = NoTimed
    /\ \E mn \in 1..AggMaxMin, mx \in 1..AggMaxTrials, t \in Targets, e \in BOOLEAN :
         agg = [phase |-> "loop", min |-> mn, max |-> mx, target |-> t, early |-> e,
                trial |-> 0, buf |-> <<>>, failedCount |-> 0, slept |-> FALSE,
                result |-> NoResult]

\* One pass of the loop of aggregate_measurements: the trial at index
\* agg.trial returns failed or with a net energy; the early-stop check; the
\* cooldown sleep; and, when the loop is over, what follows it (the
\* "All trials failed" error or the result).
AggregateTrial ==
    /\ agg.phase = "loop"
    /\ \E ok \in BOOLEAN : \E e \in Energies :
         LET buf2 == IF ok THEN Append(agg.buf, e) ELSE agg.buf
             f2 == IF ok THEN agg.failedCount ELSE agg.failedCount + 1
             abort == ~ok /\ OnFailedTrial = "abort"
             cvBelow == CalculateCv(buf2) < agg.target
             shouldStop == /\ ok
                           /\ Len(buf2) >= agg.min
                           /\ ShouldStopEarlyCfg(agg.early, agg.min, agg.max, Len(buf2), cvBelow)
             stop == IF ~shouldStop THEN "none" ELSE IF cvBelow THEN "target" ELSE "max"
             \* a failed result goes to "continue", past the sleep
             sleeps == ok /\ ~shouldStop /\ agg.trial < agg.max - 1
             over == abort \/ shouldStop \/ agg.trial + 1 >= agg.max
         IN  /\ (~ok => e = 0)
             /\ agg' = [agg EXCEPT
                    !.buf = buf2,
                    !.failedCount = f2,
                    !.slept = sleeps,
                    !.trial = IF over THEN agg.trial ELSE agg.trial + 1,
                    !.phase = IF ~over THEN "loop"
                              ELSE IF abort \/ Len(buf2) = 0 THEN "raised"
                              ELSE "returned",
                    !.result = IF over /\ ~abort /\ Len(buf2) > 0
                                 THEN Result(buf2, f2, TotalTrials(agg.trial), stop)
                                 ELSE NoResult]
    /\ UNCHANGED <<pc, key, waited, initialized, calFile, isCorrect, succ, failed,
                   exc, resp, log, malformed, clients, cal, profile, run, meter, timed>>

NextAggregator == AggregateTrial

SpecAggregator == InitAggregator /\ [][NextAggregator]_vars

\* ------------------------------------ SocketExecutor.execute_single_trial
\* One trial on its own, on an executor that is set up.  Energies are whole
\* numbers of one unit, the counter holds CounterBits bits of them (32 bits
\* of microjoules on the machine) and the readings are the counter's value:
\* the division by 1 000 000 is a change of unit on both readings and on the
\* range that is added.  pkg is the package counter, dram the DRAM counter.
\* consumed is what the socket used between the two reads; the program does
\* not see it.
CounterRange == 2 ^ CounterBits
CounterValues == 0..(CounterRange - 1)
ConsumedValues == 0..(2 * CounterRange - 1)
DramValues == {0, CounterRange - 1}
DramConsumedValues == {0, 1, CounterRange}
WallValues == 1..MaxWall

\* the counter after it has counted c more from b, and how often it wrapped
CounterAfter(b, c) == (b + c) % CounterRange
Wraps(b, c) == (b + c) \div CounterRange

\* "if pkg_raw < 0: pkg_raw += (2**32 / 1_000_000.0)"
NoRolloverFix(d) == d
RolloverFix(d) == IF d < 0 THEN d + CounterRange ELSE d

\* CalibrationProfile.get_baseline_energy
BaselineEnergy(idle, duration) == idle * duration

Max0(x) == IF x > 0 THEN x ELSE 0

\* package_net = max(0.0, pkg_raw - baseline_energy)
NetPackageUnclamped(raw, baseline) == raw - baseline
NetPackage(raw, baseline) == Max0(raw - baseline)

\* total_net = package_net + max(0.0, dram_raw)
NetTotal(pkgNet, dramRaw) == pkgNet + Max0(dramRaw)

\* the ExecutionResult of a trial that did not succeed
FailedResultKeepsEnergy(msg) ==
    [success |-> FALSE, error |-> msg, net |-> 1, raw |-> 1, baseline |-> 0,
     time |-> 0, pkgNet |-> 1, dram |-> 0]
FailedResult(msg) ==
    [success |-> FALSE, error |-> msg, net |-> 0, raw |-> 0, baseline |-> 0,
     time |-> 0, pkgNet |-> 0, dram |-> 0]

\* the ExecutionResult of a successful trial, from the two readings, the
\* wall time and the profile's idle power
SuccessResult(before, after, wall, idle) ==
    LET pkgRaw == RolloverFix(after.pkg - before.pkg)
        dramRaw == RolloverFix(after.dram - before.dram)
        baseline == BaselineEnergy(idle, wall)
        pkgNet == NetPackage(pkgRaw, baseline)
    IN  [success |-> TRUE, error |-> "none", net |-> NetTotal(pkgNet, dramRaw),
         raw |-> pkgRaw, baseline |-> baseline, time |-> wall,
         pkgNet |-> pkgNet, dram |-> dramRaw]

NoReading == [pkg |-> 0, dram |-> 0]
NoTrialResult == FailedResult("none")

\* aggregate_measurements takes the result: a successful one is appended to
\* successful_results, a failed one is counted
Collect(buf, r) == IF r.success THEN Append(buf, r) ELSE buf

\* idle_power_watts of a profile setup accepted: any number but zero
InitRun ==
    /\ InitWorkers
    /\ clients = WellFormed
    /\ cal = "off"
    /\ agg = NoAgg
    /\ profile = NoProfile
    /\ meter = NoMeter /\ timed = NoTimed
    /\ \E i \in IdleValues \ {0} :
         run = [phase |-> "call", file |-> FALSE, idle |-> i,
                before |-> NoReading, consumed |-> NoReading, after |-> NoReading,
                wall |-> 0, result |-> NoTrialResult, buffer |-> <<>>]

RunReturns(r) ==
    run' = [run EXCEPT !.phase = "returned", !.file = FALSE, !.result = r,
                       !.buffer = Collect(run.buffer, r)]

RunUnchanged ==
    UNCHANGED <<pc, key, waited, initialized, calFile, isCorrect, succ, failed,
                exc, resp, log, malformed, clients, cal, agg, profile, meter, timed>>

\* The idle check, and the driver script written to a temporary file
\* (NamedTemporaryFile(delete=False), before the try statement).
RunStart ==
    /\ run.phase = "call"
    /\ \/ \* the socket is not idle: a failed result, no file was made
          run' = [run EXCEPT !.phase = "returned",
                             !.result = FailedResult("not idle"),
                             !.buffer = Collect(run.buffer, FailedResult("not idle"))]
       \/ \* the file is made and written
          run' = [run EXCEPT !.phase = "created", !.file = TRUE]
       \/ \* the file is made and f.write raises (the script cannot be
          \* encoded in the locale's encoding, or the disk is full)
          run' = [run EXCEPT !.phase = "raised", !.file = TRUE]
    /\ RunUnchanged

\* Inside the try statement: the first reading.
RunReadBefore ==
    /\ run.phase = "created"
    /\ \/ \* the reading raises: except Exception, then finally
          RunReturns(FailedResult("unexpected"))
       \/ \E p \in CounterValues, d \in DramValues :
             run' = [run EXCEPT !.phase = "running", !.before = [pkg |-> p, dram |-> d]]
    /\ RunUnchanged

\* subprocess.run returns or times out; the second reading; the result; the
\* finally clause removes the file.
RunFinish ==
    /\ run.phase = "running"
    /\ \/ RunReturns(FailedResult("timeout"))
       \/ \E rc \in {0, 1}, readOk \in BOOLEAN, w \in WallValues,
             c \in ConsumedValues, dc \in DramConsumedValues :
             LET cons == [pkg |-> c, dram |-> dc]
                 aft == [pkg |-> CounterAfter(run.before.pkg, cons.pkg),
                         dram |-> CounterAfter(run.before.dram, cons.dram)]
             IN  IF ~readOk THEN RunReturns(FailedResult("unexpected"))
                 ELSE IF rc # 0 THEN RunReturns(FailedResult("execution failed"))
                 ELSE run' = [run EXCEPT
                         !.phase = "returned", !.file = FALSE,
                         !.consumed = cons, !.after = aft, !.wall = w,
                         !.result = SuccessResult(run.before, aft, w, run.idle),
                         !.buffer = Collect(run.buffer,
                                            SuccessResult(run.before, aft, w, run.idle))]
    /\ RunUnchanged

NextRun ==
    \/ RunStart
    \/ RunReadBefore
    \/ RunFinish

SpecRun == InitRun /\ [][NextRun]_vars

\* ------------------------------------------- the holder and the clock
\* One request that has acquired the lock, with the time its trials take
\* counted in half seconds from the SET that created the key.  The values
\* are the ones the task configures.
LockTimeoutSeconds == 300      \* Socket0Lock(lock_timeout=300)
TrialTimeoutSeconds == 30      \* SocketExecutor(timeout_seconds=30)
TaskMaxTrials == 20            \* StatisticalAggregator(max_trials=20)
TaskMinTrials == 3             \* StatisticalAggregator(min_trials=3)
CooldownHalfSeconds == 1       \* StatisticalAggregator(cooldown_seconds=0.5)

\* the moment Redis drops the key, in half seconds after the SET
KeyLifetime == 2 * LockTimeoutSeconds

\* how long execute_single_trial may take: half a second, or until
\* subprocess.run(timeout=timeout_seconds) gives up
TrialDurations == {1, 2 * TrialTimeoutSeconds}

InitTimed ==
    /\ InitWorkers
    /\ clients = WellFormed
    /\ cal = "off"
    /\ agg = NoAgg
    /\ profile = NoProfile
    /\ run = NoRun /\ meter = NoMeter
    /\ timed = [phase |-> "trials", trial |-> 0, successes |-> 0, elapsed |-> 0,
                lapsed |-> FALSE]

\* One pass of the loop of aggregate_measurements under the lock: a trial of
\* duration d that succeeds or fails (one that runs into the timeout fails),
\* the early-stop check, the cooldown.  lapsed: the key's lifetime ran out
\* before this holder was through with its trials.
TimedTrial ==
    /\ timed.phase = "trials"
    /\ \E d \in TrialDurations, ok \in BOOLEAN, cvBelow \in BOOLEAN :
         LET n == IF ok THEN timed.successes + 1 ELSE timed.successes
             stop == ok /\ n >= TaskMinTrials
                        /\ ShouldStopEarlyCfg(TRUE, TaskMinTrials, TaskMaxTrials, n, cvBelow)
             over == stop \/ timed.trial + 1 >= TaskMaxTrials
             ended == timed.elapsed + d
             sleeps == ok /\ ~stop /\ timed.trial < TaskMaxTrials - 1
         IN  /\ (d = 2 * TrialTimeoutSeconds => ~ok)
             /\ timed' = [timed EXCEPT
                    !.phase = IF over THEN "exit" ELSE "trials",
                    !.trial = IF over THEN timed.trial ELSE timed.trial + 1,
                    !.successes = n,
                    !.elapsed = IF sleeps THEN ended + CooldownHalfSeconds ELSE ended,
                    !.lapsed = timed.lapsed \/ ended > KeyLifetime]
    /\ UNCHANGED <<pc, key, waited, initialized, calFile, isCorrect, succ, failed,
                   exc, resp, log, malformed, clients, cal, agg, profile, run, meter>>

NextTimed == TimedTrial

SpecTimed == InitTimed /\ [][NextTimed]_vars

\* ---------------------------------------------------------- PCMSocketMeter
\* The reading cache of one meter, with the clock (time.time()) counted in
\* ticks of 50 ms.  cache is _last_reading_cache: per socket the tick at
\* which the cached reading was taken from that socket's counter (its
\* timestamp field), or NotCached.  stamp is _cache_timestamp.  last is the
\* read that returned last; stale holds the sockets whose entry the caller
\* has removed and that were not read since.
Sockets == {0, 1}
CacheMaxAgeTicks == 2          \* _cache_max_age = 0.1
NotCached == 0 - 1
NoRead == [socket |-> 0, at |-> 0, captured |-> 0, cached |-> FALSE, wasStale |-> FALSE]

InitMeter ==
    /\ InitWorkers
    /\ clients = WellFormed
    /\ cal = "off"
    /\ agg = NoAgg
    /\ profile = NoProfile
    /\ run = NoRun /\ timed = NoTimed
    /\ meter = [on |-> TRUE, now |-> 0, cache |-> [s \in Sockets |-> NotCached],
                stamp |-> 0, last |-> NoRead, stale |-> {}]

MeterUnchanged ==
    UNCHANGED <<pc, key, waited, initialized, calFile, isCorrect, succ, failed,
                exc, resp, log, malformed, clients, cal, agg, profile, run, timed>>

\* whether _read_socket_energy answers from the cache
ServedFromCache(m, s) ==
    m.cache[s] # NotCached /\ m.now - m.stamp < CacheMaxAgeTicks

\* time passes
MeterTick ==
    /\ meter.on
    /\ meter.now < MaxClock
    /\ meter' = [meter EXCEPT !.now = @ + 1]
    /\ MeterUnchanged

\* PCMSocketMeter._read_socket_energy(s)
ReadSocketEnergy(s) ==
    /\ meter.on
    /\ IF ServedFromCache(meter, s)
         THEN meter' = [meter EXCEPT
                  !.last = [socket |-> s, at |-> meter.now, captured |-> meter.cache[s],
                            cached |-> TRUE, wasStale |-> s \in meter.stale]]
         ELSE meter' = [meter EXCEPT
                  !.cache[s] = meter.now,
                  !.stamp = meter.now,
                  !.stale = @ \ {s},
                  !.last = [socket |-> s, at |-> meter.now, captured |-> meter.now,
                            cached |-> FALSE, wasStale |-> s \in meter.stale]]
    /\ MeterUnchanged

\* the caller that needs a fresh reading removes the socket's entry
InvalidateCache(s) ==
    /\ meter.on
    /\ meter.cache[s] # NotCached
    /\ meter' = [meter EXCEPT !.cache[s] = NotCached, !.stale = @ \cup {s}]
    /\ MeterUnchanged

NextMeter ==
    \/ MeterTick
    \/ \E s \in Sockets : ReadSocketEnergy(s)
    \/ \E s \in Sockets : InvalidateCache(s)

SpecMeter == InitMeter /\ [][NextMeter]_vars

\* ----------------------------------------------------------------- types
TypeOK ==
    /\ pc \in [Workers -> {"idle", "done"} \cup Running]
    /\ key.present \in BOOLEAN /\ key.expires \in BOOLEAN
    /\ key.owner \in Workers \cup {NoOwner, Orphan}
    /\ waited \in [Workers -> 0..MaxAttempts - 1]
    /\ \A w \in Workers : succ[w] + failed[w] <= MaxTrials
    /\ malformed \in [Workers -> BOOLEAN]
    /\ clients \subseteq RequestKinds
    /\ calFile \in CalFileContents
    /\ cal \in {"off", "sampling", "saving"}

\* ---------------------------------------------------------------- claims
Has(l, e) == \E i \in 1..Len(l) : l[i] = e

\* the with body: executor.setup, aggregate_measurements, executor.cleanup
InMeasurement(w) == pc[w] \in {"setup", "trial", "running"}

\* w's acquire returned True and w has not called release since
Holding(w) == pc[w] \in {"setup", "trial", "running", "exit"}

\* the step is one pass of w's polling loop (one SET NX)
PollStep(w) ==
    /\ pc[w] = "acquire"
    /\ pc'[w] # "idle"
    /\ <<pc'[w], waited'[w]>> # <<pc[w], waited[w]>>

\* the step is a release() by w that returns to the task
ReleaseStep(w) ==
    /\ pc[w] \in {"exit", "except"}
    /\ pc'[w] \in {"except", "done"}
    /\ pc'[w] # pc[w]

\* the step kills w's task
KillStep(w) == pc[w] \in Running /\ pc'[w] = "idle"

\* C1: for any interleaving of the workers' acquire attempts, timeouts,
\* failures, releases and key expiry, at most one worker is inside its
\* measurement section at any instant.
C1_OneMeasurementAtATime == Cardinality({w \in Workers : InMeasurement(w)}) <= 1

\* C2: while worker a holds the lock (its acquire returned True, it has not
\* released, and the key's lifetime has not run out: SpecWithinTtl), every
\* SET NX attempt of another worker fails and leaves the key unchanged.
C2_HeldLockRefusesOthers ==
    [][\A a, b \in Workers :
         (a # b /\ Holding(a) /\ PollStep(b)) => (pc'[b] # "setup" /\ key' = key)]_vars

\* C3: when the task has finished a request that had acquired the lock, with
\* whatever outcome, a release() followed the acquire and the key that
\* request set is no longer there.
C3_ReleasedOnEveryExit ==
    \A w \in Workers :
        (pc[w] = "done" /\ Has(log[w], "acquired")) =>
            /\ \E i, j \in 1..Len(log[w]) :
                  i < j /\ log[w][i] = "acquired" /\ log[w][j] = "released"
            /\ ~(key.present /\ key.owner = w)

C3_Witness ==
    \E w \in Workers :
        pc[w] = "done" /\ Has(log[w], "acquired") /\ resp[w].status = "failed"

\* C4: a request the validator found incorrect never tries to acquire the
\* lock, never sets up the executor, reads no counter and runs no trial; it
\* returns validation_failed without energy metrics.
C4_IncorrectNeverMeasures ==
    \A w \in Workers :
        isCorrect[w] = "no" =>
            /\ pc[w] = "done"
            /\ resp[w].status = "validation_failed" /\ ~resp[w].energy
            /\ \A e \in {"acq_try", "acquired", "setup", "read"} : ~Has(log[w], e)
            /\ succ[w] + failed[w] = 0

C4_Witness == \E w \in Workers : isCorrect[w] = "no" /\ pc[w] = "done"

\* the request's own steps are in order: validation, acquire, counter reads,
\* release, response
OwnEventsInOrder(w) ==
    \A i \in 1..Len(log[w]) :
        /\ log[w][i] = "read" =>
              /\ \E j, k \in 1..(i - 1) :
                    j < k /\ log[w][j] = "validated" /\ log[w][k] = "acquired"
              /\ \A j \in 1..(i - 1) : log[w][j] \notin {"released", "responded"}
        /\ (log[w][i] = "responded" /\ Has(log[w], "read")) =>
              \E j \in 1..(i - 1) : log[w][j] = "released"

\* C5: in a request that measures energy, validation comes first, then the
\* acquire, then every counter read of every trial while the lock is held
\* (the key this request set is in Redis for the whole of each trial, from
\* its first counter read to its second), then the release, and only then
\* the response.
C5_ReadsUnderHeldLock ==
    \A w \in Workers :
        /\ OwnEventsInOrder(w)
        /\ pc[w] = "running" => (key.present /\ key.owner = w)

C7_CancelReleasesLock ==
    [][\A w \in Workers :
         (KillStep(w) /\ pc[w] \in {"trial", "running"}) =>
            /\ pc'[w] \notin {"trial", "running"}
            /\ (key.present /\ key.owner = w) => ~key'.present
            /\ resp'[w].status = "cancelled"]_vars

\* C8: every release() returns without raising and leaves the key absent,
\* the second of two releases of one request and a release that finds no
\* key included.
C8_ReleaseIdempotent ==
    [][\A w \in Workers :
         ReleaseStep(w) => (key' = Absent /\ exc'[w] # "release")]_vars

C8_Witness ==
    \E w \in Workers :
        /\ pc[w] = "done" /\ Has(log[w], "acquired")
        /\ exc[w] \in {"cal_missing", "cal_invalid", "meter", "all_failed", "internal"}
        /\ ~key.present

\* C9: the key of a holder that was killed before it released goes away
\* (its lifetime runs out), and a poll that finds no key acquires the lock.
C9_CrashedHolderKeyExpires ==
    /\ (key.present /\ key.owner = Orphan) ~> ~key.present
    /\ [][\A w \in Workers : (PollStep(w) /\ ~key.present) =>
             (pc'[w] = "setup" /\ key'.present /\ key'.owner = w)]_vars

C9_Witness ==
    /\ key.present /\ key.owner = Orphan
    /\ \E w \in Workers : pc[w] = "acquire" /\ waited[w] > 0

\* C10: a request that reaches executor setup while the calibration file is
\* absent or unusable leaves setup with an error (and so is finalized failed,
\* with no trial run).
C10_UnusableCalibrationFails ==
    [][\A w \in Workers :
         (pc[w] = "setup" /\ pc'[w] \notin {"setup", "idle"} /\ calFile # "valid") =>
            (pc'[w] = "exit" /\ exc'[w] \in {"cal_missing", "cal_invalid", "meter"})]_vars

\* C11: a malformed request (empty code, no test case, a trial count or a
\* timeout below 1) is finalized as a bad-request failure before the
\* correctness validator has run, and never reaches the lock or a trial.
C11_MalformedIsRefused ==
    \A w \in Workers :
        malformed[w] =>
            /\ ~Has(log[w], "validated")
            /\ pc[w] \in {"except", "done"}
            /\ succ[w] + failed[w] = 0
            /\ pc[w] = "done" => resp[w] = FailedResponse("bad_request")

\* C12: is_valid returns true if and only if the profile's age is at most
\* valid_until_days and idle_power is strictly positive; a profile older
\* than valid_until_days (with a positive idle_power) fails with the
\* "expired" reason; a profile with idle_power <= 0 is never usable.
C12_UsableIffFreshAndPositive ==
    profile.checked = "yes" =>
        LET p == profile.in
            fresh == p.ts = "ok" /\ p.age <= p.validDays
            positive == p.loaded /\ p.idle > 0
        IN  /\ profile.out.ok <=> (fresh /\ positive)
            /\ (p.ts = "ok" /\ p.age > p.validDays /\ positive) => profile.out.reason = "expired"
            /\ (p.loaded /\ p.idle <= 0) => ~profile.out.ok

\* C13: a worker that loads the calibration file while the tool is saving a
\* new one reads a complete record, the old or the new one: no load ever
\* fails on an empty or partly written file.
C13_LoadSeesWholeRecord == \A w \in Workers : exc[w] # "cal_corrupt"

\* C14: at no instant is the calibration tool sampling the socket's counter
\* while a trial subprocess of a worker runs on that socket.
C14_CalibratorNeverOverlapsTrial ==
    ~(cal = "sampling" /\ \E w \in Workers : pc[w] = "running")

\* the buffer's first k results meet the early-stop test
Converged(k) == k >= agg.min /\ CalculateCv(SubSeq(agg.buf, 1, k)) < agg.target

\* C15: with early stopping enabled the aggregation never stops early with
\* fewer than min_trials successful trials in the buffer, and it stops, with
\* the achieved-target reason, right after the first successful trial at
\* which the buffer holds at least min_trials results with CV% below target.
C15_StopsAtFirstConvergedTrial ==
    (agg.phase # "off" /\ agg.early) =>
        /\ (agg.phase = "returned" /\ agg.result.earlyStop) => Len(agg.buf) >= agg.min
        /\ agg.phase = "loop" => \A k \in 1..Len(agg.buf) : ~Converged(k)
        /\ agg.phase = "returned" =>
              /\ \A k \in 1..(Len(agg.buf) - 1) : ~Converged(k)
              /\ Converged(Len(agg.buf)) =>
                    (agg.result.earlyStop /\ agg.result.reason = "target")

C15_Witness ==
    /\ agg.phase = "returned" /\ agg.early
    /\ agg.result.reason = "target"
    /\ Len(agg.buf) >= 2
    /\ agg.result.total < agg.max

C17_TooFewSuccessesFails ==
    \A w \in Workers :
        (pc[w] = "done" /\ succ[w] + failed[w] > 0 /\ succ[w] < MinTrials) =>
            (resp[w].status = "failed" /\ ~resp[w].energy)

\* C18: whenever the next trial of an aggregation is about to start, the
\* cooldown sleep has taken place since the previous trial returned, whether
\* that trial succeeded or failed.
C18_CooldownBetweenTrials ==
    (agg.phase = "loop" /\ agg.trial > 0) => agg.slept

\* C19 as claimed: for every min_trials >= 1 and max_trials, an aggregation
\* that ends with exactly one successful trial reports stddev = 0, CV% = 0
\* and confidence low.
C19_SingleTrialIsLow ==
    (agg.phase = "returned" /\ Len(agg.buf) = 1) =>
        /\ agg.result.stdevZero /\ agg.result.cv = 0
        /\ agg.result.confidence = "low"

\* C19 as amended: an aggregation that ends with exactly one successful
\* trial returns a result with stddev = 0 and CV% = 0; its confidence is low
\* when min_trials >= 2 and high when min_trials = 1.
C19_SingleTrialIsLowUnlessMinOne ==
    (agg.phase = "returned" /\ Len(agg.buf) = 1) =>
        /\ agg.result.stdevZero /\ agg.result.cv = 0
        /\ agg.result.confidence = IF agg.min >= 2 THEN "low" ELSE "high"

C19_Witness ==
    /\ agg.phase = "returned" /\ Len(agg.buf) = 1
    /\ agg.min >= 2 /\ agg.failedCount >= 1

\* C20: the confidence label of a result is high exactly when CV% < 5 and
\* the successful trials are at least min_trials, medium exactly when
\* 5 <= CV% < 10 and the successful trials are at least min_trials, and low
\* in every other case, whatever target_cv_percent is.
C20_ConfidenceLabel ==
    agg.phase = "returned" =>
        LET cv == CalculateCv(agg.buf)
            enough == Len(agg.buf) >= agg.min
            label == agg.result.confidence
        IN  /\ agg.result.cv = cv
            /\ label = "high" <=> (cv < 5 /\ enough)
            /\ label = "medium" <=> (5 <= cv /\ cv < 10 /\ enough)
            /\ label = "low" <=> ~(cv < 10 /\ enough)

C20_Witness ==
    /\ agg.phase = "returned"
    /\ agg.result.confidence = "medium"
    /\ agg.target # 5

\* a trial that returned a successful result
Measured == run.phase = "returned" /\ run.result.success

\* C21 as claimed: for two reads between which the counter wrapped exactly
\* once the delta of the trial is non-negative and equals
\* (after + range) - before; when the counter did not wrap the delta is
\* after - before.
C21_OneWrapAddsRange ==
    Measured =>
        /\ Wraps(run.before.pkg, run.consumed.pkg) = 1 =>
              /\ run.result.raw >= 0
              /\ run.result.raw = (run.after.pkg + CounterRange) - run.before.pkg
        /\ Wraps(run.before.pkg, run.consumed.pkg) = 0 =>
              run.result.raw = run.after.pkg - run.before.pkg

\* C21 as amended: the delta of the trial is (after - before) mod range, for
\* the package and for the DRAM counter.  It is what the socket consumed
\* whenever that is less than one range: then a wrap shows as
\* after < before and the delta is (after + range) - before, and without a
\* wrap the delta is after - before.  A wrap with after >= before (one range
\* or more consumed) is not seen and the delta is after - before.
C21_DeltaModRange ==
    Measured =>
        /\ run.result.raw = (run.after.pkg - run.before.pkg + CounterRange) % CounterRange
        /\ run.result.dram = (run.after.dram - run.before.dram + CounterRange) % CounterRange
        /\ run.result.raw >= 0 /\ run.result.dram >= 0
        /\ run.consumed.pkg < CounterRange => run.result.raw = run.consumed.pkg
        /\ run.after.pkg < run.before.pkg =>
              run.result.raw = (run.after.pkg + CounterRange) - run.before.pkg
        /\ run.after.pkg >= run.before.pkg =>
              run.result.raw = run.after.pkg - run.before.pkg

C21_Witness ==
    /\ Measured
    /\ Wraps(run.before.pkg, run.consumed.pkg) = 1
    /\ run.after.pkg < run.before.pkg
    /\ run.result.raw = run.consumed.pkg /\ run.result.raw > 0

\* C22: in every successful trial result baseline = idle_power x wall
\* duration, net package energy = max(0, raw package delta - baseline) and
\* net total energy = net package energy + max(0, raw DRAM delta); so
\* net total >= net package >= 0.
C22_NetEnergy ==
    Measured =>
        LET r == run.result
            over == r.raw - r.baseline
        IN  /\ r.time = run.wall
            /\ r.baseline = run.idle * run.wall
            /\ r.pkgNet = (IF over > 0 THEN over ELSE 0)
            /\ r.net = r.pkgNet + (IF r.dram > 0 THEN r.dram ELSE 0)
            /\ r.net >= r.pkgNet /\ r.pkgNet >= 0

C22_Witness ==
    /\ Measured
    /\ run.result.raw < run.result.baseline
    /\ run.result.dram > 0
    /\ run.result.net > run.result.pkgNet

\* C28: a trial whose subprocess exits nonzero or runs into the timeout
\* returns a failed result with its message, whose net, raw and baseline
\* energies (and the package and DRAM parts) are zero, and the aggregator
\* does not put it into its buffer of successful results.
C28_FailedTrialCarriesNoEnergy ==
    (run.phase = "returned" /\ ~run.result.success) =>
        /\ run.result.error \in {"not idle", "unexpected", "timeout", "execution failed"}
        /\ run.result.net = 0 /\ run.result.raw = 0 /\ run.result.baseline = 0
        /\ run.result.pkgNet = 0 /\ run.result.dram = 0
        /\ run.buffer = <<>>

C28_Witness ==
    /\ run.phase = "returned"
    /\ run.result.error \in {"timeout", "execution failed"}
    /\ run.before.pkg > 0

\* C29: once execute_single_trial has returned or raised, on whatever path,
\* the driver file it made is gone.
C29_DriverFileRemoved ==
    run.phase \in {"returned", "raised"} => ~run.file

\* C23: a release() by a worker that does not hold the lock (its acquire
\* timed out, or its own key is gone and another worker has acquired since)
\* leaves the current holder's key in place.
C23_NonHolderNeverRemoves ==
    [][\A w \in Workers :
         (ReleaseStep(w) /\ key.present /\ key.owner \in Workers \ {w}) =>
            key' = key]_vars

\* C24: with the task's parameters (key lifetime 300 s, trial timeout 30 s,
\* at most 20 trials, 0.5 s cooldown) the key of a live holder does not run
\* out while that holder is still running trials.
C24_KeyOutlivesMeasurement == timed.phase # "off" => ~timed.lapsed

\* C25: every request that goes on to run trials has loaded the
\* calibration file and checked the profile in its own executor setup, under
\* the lock it acquired: no request leaves setup for the trials on a profile
\* an earlier request of the same worker loaded.
C25_EveryRequestLoadsCalibration ==
    [][\A w \in Workers :
         (pc[w] = "setup" /\ pc'[w] = "trial") =>
            (~initialized[w] /\ CalibrationError(calFile) = "none")]_vars

\* C26: an aggregation (with early stopping enabled) that has at least
\* min_trials successful trials, has not achieved the target CV and has run
\* its last allowed trial stops with the max-trials reason, also when some
\* of its trials failed.
C26_MaxTrialsReason ==
    (/\ agg.phase = "returned" /\ agg.early
     /\ Len(agg.buf) >= agg.min
     /\ ~Converged(Len(agg.buf))
     /\ agg.result.total >= agg.max) =>
        (agg.result.earlyStop /\ agg.result.reason = "max")

\* C27: the trials of an aggregation run one at a time with the indices
\* 0, 1, 2, ..., fewer than max_trials + 1 of them; in every result
\* total_trials = successful_trials + failed_trials <= max_trials, and the
\* lists of energies and of times have successful_trials entries each.
C27_TrialsSequentialAndCounted ==
    /\ [](agg.phase # "off" =>
            /\ agg.trial = (IF agg.phase = "loop" THEN Len(agg.buf) + agg.failedCount
                            ELSE Len(agg.buf) + agg.failedCount - 1)
            /\ agg.trial < agg.max
            /\ agg.phase = "returned" =>
                  /\ agg.result.total = agg.result.successful + agg.result.failed
                  /\ agg.result.total <= agg.max
                  /\ agg.result.total = agg.trial + 1
                  /\ agg.result.successful = Len(agg.buf)
                  /\ Len(agg.result.energies) = agg.result.successful
                  /\ agg.result.times = agg.result.successful)
    /\ [][(agg.phase = "loop" /\ agg'.phase = "loop") => agg'.trial = agg.trial + 1]_vars

C27_Witness ==
    /\ agg.phase = "returned"
    /\ agg.result.total < agg.max
    /\ agg.result.failed >= 1
    /\ agg.result.earlyStop

\* C30: a reading served from the cache for socket s was taken from
\* socket s's counter no more than 100 ms (CacheMaxAgeTicks) earlier,
\* whatever reads of other sockets came in between; and the first read of s
\* after its cache entry was removed is a fresh one.
C30_CachedReadingIsRecent ==
    meter.on =>
        /\ meter.last.cached => meter.last.at - meter.last.captured <= CacheMaxAgeTicks
        /\ meter.last.wasStale => ~meter.last.cached

====
